---- MODULE Spec2Model ----
(***************************************************************************)
(* A model of the replay engine of tdiag / tdiag-connect:                  *)
(*   - replay_with_shutdown_into (connect/src/receive/replaywithshutdown.rs)*)
(*     the cooperative replay operator and its shutdown retraction;         *)
(*   - make_readers (connect/src/receive/connect.rs), the partitioning of   *)
(*     the shared slot sequence among the local workers;                    *)
(*   - open_sockets (connect.rs): bind and await_sockets;                   *)
(*   - the commands' worker closure (tdiag/src/commands/graph.rs), the      *)
(*     profile command's Schedules operator (profile.rs) and the            *)
(*     arrangements command's delay (arrangements.rs).                      *)
(* Timestamps are std::time::Duration in every caller (graph.rs:51,         *)
(* profile.rs:45), a total order; they are modelled as 0..MaxTime.          *)
(***************************************************************************)
EXTENDS Integers, Sequences, FiniteSets, TLC

\* ------------------------------------------------------------------ bounds
MaxSources == 3      \* an operator is built over 0..MaxSources event streams
MaxTime == 1         \* timestamps are 0..MaxTime
MaxEvents == 2       \* events that arrive on all sources together
MaxData == 2         \* payloads of one Messages event
MaxSlots == 3        \* slots of the shared sequence: 0..MaxSlots
MaxPeers == 3        \* local workers: worker_peers is 1..MaxPeers
MaxCalls == 3        \* calls of make_readers on one slot sequence
MaxConns == 3        \* connections awaited, and connection attempts in the backlog
MaxFairSources == 2  \* sources of the operator under the fair scheduler
MaxFairEvents == 1   \* events that arrive under the fair scheduler
MaxBatch == 2        \* schedule events in one input batch of the profile command
MaxMillis == 8       \* event times lie within MaxMillis ms of 0 or of the u64 limit
MaxInterval == 4     \* the arrangements command's output interval is 0..MaxInterval ms

\* Default::default() of the timestamp type (Duration::default() is zero).
DefaultTime == 0

Times == 0 .. MaxTime
Deltas == {-1, 1}
\* Option<T>: None is <<>>, Some(t) is <<t>>.
None == <<>>
Some(t) == <<t>>

\* ------------------------------------------------------------------ state
VARIABLES
    event_streams,     \* per source: the events its iterator will yield before None
    started,           \* replaywithshutdown.rs:69
    antichain,         \* the MutableAntichain's counts, per timestamp
    is_running,        \* the shared AtomicBool
    controller,        \* the controller thread: "stdin" before the store, "join" after
    activate_requested,\* activator.activate() called and not yet served
    internal,          \* updates put into internal[0] by the last activation, in order
    pushed,            \* batches <<time, data>> pushed downstream by the last activation
    produced,          \* updates <<time, count>> drained into produced[0] by the last activation
    act,               \* the last activation: kind, prev (the kind before it), first,
                       \* start (the tracker as it found it), read, passes
    emitted,           \* per timestamp: sum of all updates ever put into internal[0]
    delivered,         \* every payload ever pushed downstream, in order
    arrived            \* per source: number of events that arrived so far

opVars == <<event_streams, started, antichain, is_running, controller,
            activate_requested, internal, pushed, produced, act, emitted, delivered,
            arrived>>

\* make_readers: the shared slot sequence and the calls made on it.
VARIABLES
    source,            \* "Tcp" or "Files": the variant of ReplaySource
    slots,             \* the Vec<Option<_>> behind the mutex
    unopenable,        \* the paths File::open fails on
    poisoned,          \* the mutex: a thread panicked while holding it
    before,            \* the slots as the last call found them
    calls              \* the calls so far: index, peers, outcome, readers, error

rdVars == <<source, slots, unopenable, poisoned, before, calls>>

\* The closure's position when an activation is followed step by step.
VARIABLES
    pc,                \* "idle" between activations, "loaded" after the load of line 87
    loaded,            \* the value that load returned
    raced              \* some activation was between its load and its return when
                       \* the controller stored false

stepVars == <<pc, loaded, raced>>

\* open_sockets: the listener and what is accepted from it.
VARIABLES
    bound,             \* None, or the call of bind: what the resolution and the
                       \* bind of the address returned, and its result
    backlog,           \* the connection attempts so far, in arrival order
    opened             \* None, or what await_sockets returned

netVars == <<bound, backlog, opened>>

\* The commands: the worker closure they start (graph.rs:44-56), the profile
\* command's "Schedules" operator and the arrangements command's delay.
VARIABLES
    replayer,          \* graph.rs:51, None or what make_readers returned to the
                       \* worker whose operator is followed
    map,               \* profile.rs:60, the pending Start of each (worker, id) key
    batch,             \* profile.rs:61, the batch the operator handled last
    found,             \* the map as that batch found it
    session,           \* the records given to the output session for that batch
    crashed,           \* an assertion, an expect or checked arithmetic panicked: the
                       \* worker is gone
    now,               \* the latest timestamp the replayed log has reached
    output_interval_ms,\* arrangements.rs: the output interval of the command line
    event_time,        \* None, or the time of the event the delay handled last
    assigned           \* None, or the time the delay gave it

cmdVars == <<replayer, map, batch, found, session, crashed, now, output_interval_ms,
             event_time, assigned>>

vars == <<opVars, rdVars, stepVars, netVars, cmdVars>>

\* ------------------------------------------------------------------ events
\* Event::Progress(Vec<(T, i64)>) and Event::Messages(T, Vec<D>).
Updates == Times \X Deltas

\* A source sends single updates, and the pairs a frontier advance is logged as:
\* one unit retired at a timestamp together with one unit claimed at a later one.
ProgressEvents ==
    {[type |-> "Progress", vec |-> <<u>>] : u \in Updates}
    \cup {[type |-> "Progress", vec |-> <<<<p[1], -1>>, <<p[2], 1>>>>] :
              p \in {q \in Times \X Times : q[1] < q[2]}}

\* The payloads of the k-th event of source s: <<s, k, 1>>, <<s, k, 2>>, ...
Payloads(s, k) == [j \in 1 .. MaxData |-> <<s, k, j>>]

MessagesEvents(s, k) ==
    {[type |-> "Messages", time |-> t, data |-> Payloads(s, k)] : t \in Times}

\* ------------------------------------------------------- MutableAntichain
ZeroCounts == [t \in Times |-> 0]

\* MutableAntichain::new()
NewAntichain == ZeroCounts

\* ChangeBatch::update / one step of update_iter: add a delta to a timestamp.
update(counts, t, d) == [counts EXCEPT ![t] = @ + d]

RECURSIVE update_iter(_, _)
update_iter(counts, vec) ==
    IF vec = <<>> THEN counts
    ELSE update_iter(update(counts, vec[1][1], vec[1][2]), Tail(vec))

\* Mutant of frontier: every timestamp of positive count, minimal or not.
frontierAll(counts) == {t \in Times : counts[t] > 0}

\* MutableAntichain::frontier(): the minimal timestamps of strictly positive count.
frontier(counts) ==
    {t \in Times : counts[t] > 0 /\ \A u \in Times : counts[u] > 0 => ~(u < t)}

\* MutableAntichain::is_empty(): the frontier has no element.
is_empty(counts) == frontier(counts) = {}

RECURSIVE SortedSeq(_)
SortedSeq(S) ==
    IF S = {} THEN <<>>
    ELSE LET m == CHOOSE x \in S : \A y \in S : x <= y
         IN <<m>> \o SortedSeq(S \ {m})

\* Mutant of Elements: a timestamp's whole count is retracted at once.
ElementsAll(counts) ==
    LET f == SortedSeq(frontier(counts))
    IN [i \in 1 .. Len(f) |-> <<f[i], - counts[f[i]]>>]

\* frontier().iter().map(|t| (t.clone(), -1)).collect::<Vec<_>>()
Elements(counts) ==
    LET f == SortedSeq(frontier(counts))
    IN [i \in 1 .. Len(f) |-> <<f[i], -1>>]

\* Mutant of Retract: `if` for `while`, one pass only.
RetractOnce(counts, out, passes) ==
    IF is_empty(counts)
    THEN [antichain |-> counts, internal |-> out, passes |-> passes]
    ELSE [antichain |-> update_iter(counts, Elements(counts)),
          internal |-> out \o Elements(counts), passes |-> passes + 1]

\* The else branch: while !antichain.is_empty() { ... }
RECURSIVE Retract(_, _, _)
Retract(counts, out, passes) ==
    IF is_empty(counts)
    THEN [antichain |-> counts, internal |-> out, passes |-> passes]
    ELSE LET elements == Elements(counts)
         IN Retract(update_iter(counts, elements), out \o elements, passes + 1)

\* ------------------------------------------------------------ PushBuffer
\* The buffer is empty between activations (cease() flushes it), so an
\* activation starts from an empty buffer; the time it remembers from the
\* activation before only ever flushes that empty buffer.
\* Buffer::flush: a non-empty buffer is pushed as one batch at its time, through
\* the PushCounter, which counts the batch's records at that time.
Flush(st) ==
    IF st.buffer = <<>> THEN st
    ELSE [st EXCEPT !.pushed = Append(@, <<st.time[1], st.buffer>>),
                    !.counted = Append(@, <<st.time[1], Len(st.buffer)>>),
                    !.buffer = <<>>]

\* Mutant of Give: the data is put in front of the buffer.
GivePrepend(st, time, data) ==
    LET f == IF st.time # None /\ st.time # Some(time) THEN Flush(st) ELSE st
    IN [f EXCEPT !.time = Some(time), !.buffer = data \o @]

\* output.session(time).give_iterator(data.iter().cloned())
Give(st, time, data) ==
    LET f == IF st.time # None /\ st.time # Some(time) THEN Flush(st) ELSE st
    IN [f EXCEPT !.time = Some(time), !.buffer = @ \o data]

\* Mutant of OnEvent: the tracker takes only the first update of a Progress event.
OnEventFirstOnly(st, event) ==
    IF event.type = "Progress"
    THEN [st EXCEPT !.antichain = update_iter(@, <<event.vec[1]>>),
                    !.internal = @ \o event.vec]
    ELSE Give(st, event.time, event.data)

\* The match on one event.
OnEvent(st, event) ==
    IF event.type = "Progress"
    THEN [st EXCEPT !.antichain = update_iter(@, event.vec),
                    !.internal = @ \o event.vec]
    ELSE Give(st, event.time, event.data)

\* while let Some(event) = event_stream.next() { ... }
RECURSIVE Drain(_, _)
Drain(st, events) ==
    IF events = <<>> THEN st
    ELSE Drain(OnEvent(st, Head(events)), Tail(events))

\* for event_stream in event_streams.iter_mut() { ... }
RECURSIVE ForStreams(_, _, _)
ForStreams(st, streams, s) ==
    IF s > Len(streams) THEN st
    ELSE ForStreams(Drain(st, streams[s]), streams, s + 1)

\* Mutant of Seed: the delta is never below zero.
SeedAtLeastZero(n) == <<<<DefaultTime, IF n = 0 THEN 0 ELSE n - 1>>>>

\* Mutant of Seed: the number of streams, not one less.
SeedLen(n) == <<<<DefaultTime, n>>>>

\* The `if !started` block: the update of (event_streams.len() - 1).
Seed(n) == <<<<DefaultTime, n - 1>>>>

\* Mutant of SeedIf: the block runs in every activation.
SeedAlways(was_started, n) == Seed(n)

\* `if !started { ... }`: the updates of the block, none once started.
SeedIf(was_started, n) == IF ~was_started THEN Seed(n) ELSE <<>>

\* The state the running branch starts from: nothing buffered, nothing counted.
Fresh(counts, out) ==
    [antichain |-> counts, internal |-> out, time |-> None, buffer |-> <<>>,
     pushed |-> <<>>, counted |-> <<>>]

\* Mutant of Running: the operator asks to be activated again only when it
\* read an event.
RunningIdle(counts, out, streams) ==
    LET st == Flush(ForStreams(Fresh(counts, out), streams, 1))
    IN [antichain |-> st.antichain, internal |-> st.internal, pushed |-> st.pushed,
        produced |-> st.counted,
        read |-> streams, streams |-> [s \in DOMAIN streams |-> <<>>],
        activate |-> (\E s \in DOMAIN streams : streams[s] # <<>>), passes |-> 0]

\* Mutant of Running: only the first stream is drained.
RunningFirstOnly(counts, out, streams) ==
    LET first == [s \in DOMAIN streams |-> IF s = 1 THEN streams[s] ELSE <<>>]
        st == Flush(ForStreams(Fresh(counts, out), first, 1))
    IN [antichain |-> st.antichain, internal |-> st.internal, pushed |-> st.pushed,
        produced |-> st.counted,
        read |-> first,
        streams |-> [s \in DOMAIN streams |-> IF s = 1 THEN <<>> ELSE streams[s]],
        activate |-> TRUE, passes |-> 0]

\* Mutant of Running: no output.cease(); what is still buffered is not pushed.
RunningNoCease(counts, out, streams) ==
    LET st == ForStreams(Fresh(counts, out), streams, 1)
    IN [antichain |-> st.antichain, internal |-> st.internal, pushed |-> st.pushed,
        produced |-> st.counted,
        read |-> streams, streams |-> [s \in DOMAIN streams |-> <<>>],
        activate |-> TRUE, passes |-> 0]

\* The running branch: every stream is drained, the operator asks to be
\* activated again, then output.cease() and the counter is drained into
\* produced[0].
Running(counts, out, streams) ==
    LET st == Flush(ForStreams(Fresh(counts, out), streams, 1))
    IN [antichain |-> st.antichain, internal |-> st.internal, pushed |-> st.pushed,
        produced |-> st.counted,
        read |-> streams, streams |-> [s \in DOMAIN streams |-> <<>>],
        activate |-> TRUE, passes |-> 0]

\* Mutant of Stopped: the streams are drained before the retraction.
StoppedDrains(counts, out, streams) ==
    LET fw == Running(counts, out, streams)
        rt == Retract(fw.antichain, fw.internal, 0)
    IN [antichain |-> rt.antichain, internal |-> rt.internal, pushed |-> fw.pushed,
        produced |-> fw.produced, read |-> fw.read, streams |-> fw.streams,
        activate |-> FALSE, passes |-> rt.passes]

\* Mutant of Stopped: the stopped branch too calls activator.activate().
StoppedActivates(counts, out, streams) ==
    LET rt == Retract(counts, out, 0)
    IN [antichain |-> rt.antichain, internal |-> rt.internal, pushed |-> <<>>,
        produced |-> <<>>,
        read |-> [s \in DOMAIN streams |-> <<>>], streams |-> streams,
        activate |-> TRUE, passes |-> rt.passes]

\* Mutant of Stopped: the events still unread are dropped from the sources.
StoppedDiscards(counts, out, streams) ==
    LET rt == Retract(counts, out, 0)
    IN [antichain |-> rt.antichain, internal |-> rt.internal, pushed |-> <<>>,
        produced |-> <<>>,
        read |-> [s \in DOMAIN streams |-> <<>>],
        streams |-> [s \in DOMAIN streams |-> <<>>],
        activate |-> FALSE, passes |-> rt.passes]

\* Mutant of Stopped: one pass per activation, and the operator asks to be
\* activated again while the tracker is not empty.
StoppedYields(counts, out, streams) ==
    LET rt == RetractOnce(counts, out, 0)
    IN [antichain |-> rt.antichain, internal |-> rt.internal, pushed |-> <<>>,
        produced |-> <<>>,
        read |-> [s \in DOMAIN streams |-> <<>>], streams |-> streams,
        activate |-> ~is_empty(rt.antichain), passes |-> rt.passes]

\* The stopped branch: the retraction loop; no stream is read, nothing is given
\* to the output and the activator is not called.
Stopped(counts, out, streams) ==
    LET rt == Retract(counts, out, 0)
    IN [antichain |-> rt.antichain, internal |-> rt.internal, pushed |-> <<>>,
        produced |-> <<>>,
        read |-> [s \in DOMAIN streams |-> <<>>], streams |-> streams,
        activate |-> FALSE, passes |-> rt.passes]

\* Mutant of Logic: the `if !started` block comes after the branches.
LogicSeedLast(was_started, running, counts, streams) ==
    LET seed == SeedIf(was_started, Len(streams))
        r == IF running THEN Running(counts, <<>>, streams)
             ELSE Stopped(counts, <<>>, streams)
    IN [r EXCEPT !.antichain = update_iter(@, seed), !.internal = @ \o seed]

\* Mutant of Logic: the initial delta is emitted but not applied to the tracker.
LogicSeedUntracked(was_started, running, counts, streams) ==
    LET seed == SeedIf(was_started, Len(streams))
    IN IF running THEN Running(counts, seed, streams) ELSE Stopped(counts, seed, streams)

\* The operator's logic closure: one activation.
Logic(was_started, running, counts, streams) ==
    LET seed == SeedIf(was_started, Len(streams))
        pre == update_iter(counts, seed)
    IN IF running THEN Running(pre, seed, streams) ELSE Stopped(pre, seed, streams)

RECURSIVE Concat(_)
Concat(batches) ==
    IF batches = <<>> THEN <<>>
    ELSE batches[1][2] \o Concat(Tail(batches))

\* What the scheduler accumulates from internal[0].
Accumulate(sum, ups) == update_iter(sum, ups)

NoAct == [kind |-> "none", prev |-> "none", first |-> FALSE, start |-> ZeroCounts,
          read |-> <<>>, passes |-> 0]

RECURSIVE Total(_)
Total(f) ==
    IF f = <<>> THEN 0 ELSE Head(f) + Total(Tail(f))

\* ------------------------------------------------------------------ actions
InitOperator ==
    /\ \E n \in 0 .. MaxSources : event_streams = [s \in 1 .. n |-> <<>>]
    /\ started = FALSE
    /\ antichain = NewAntichain
    /\ is_running = TRUE
    /\ controller = "stdin"
    /\ activate_requested = TRUE
    /\ internal = <<>>
    /\ pushed = <<>>
    /\ produced = <<>>
    /\ act = NoAct
    /\ emitted = ZeroCounts
    /\ delivered = <<>>
    /\ arrived = [s \in DOMAIN event_streams |-> 0]

\* A source's reader decodes one more event: it becomes available to next().
ArriveUpTo(max) ==
    /\ Total(arrived) < max
    /\ \E s \in 1 .. Len(event_streams) :
         \E e \in ProgressEvents \cup MessagesEvents(s, arrived[s] + 1) :
            /\ event_streams' = [event_streams EXCEPT ![s] = Append(@, e)]
            /\ arrived' = [arrived EXCEPT ![s] = @ + 1]
    /\ UNCHANGED <<started, antichain, is_running, controller, activate_requested,
                   internal, pushed, produced, act, emitted, delivered>>
    /\ UNCHANGED <<rdVars, stepVars, netVars, cmdVars>>

Arrive == ArriveUpTo(MaxEvents)

\* Mutant of Store: the controller toggles the flag, any number of times.
StoreFlips ==
    /\ is_running' = ~is_running
    /\ controller' = controller
    /\ UNCHANGED <<event_streams, started, antichain, activate_requested,
                   internal, pushed, produced, act, emitted, delivered, arrived>>
    /\ UNCHANGED <<rdVars, stepVars, netVars, cmdVars>>

\* The controller thread: is_running.store(false, Release), once.
Store ==
    /\ controller = "stdin"
    /\ is_running' = FALSE
    /\ controller' = "join"
    /\ UNCHANGED <<event_streams, started, antichain, activate_requested,
                   internal, pushed, produced, act, emitted, delivered, arrived>>
    /\ UNCHANGED <<rdVars, stepVars, netVars, cmdVars>>

\* The closure's effect, given the value its load of the flag returned.
Body(running) ==
    \E r \in {Logic(started, running, antichain, event_streams)} :
       /\ started' = TRUE
       /\ antichain' = r.antichain
       /\ internal' = r.internal
       /\ pushed' = r.pushed
       /\ produced' = r.produced
       /\ event_streams' = r.streams
       /\ activate_requested' = r.activate
       /\ act' = [kind |-> IF running THEN "forward" ELSE "retract",
                  prev |-> act.kind, first |-> ~started, start |-> antichain,
                  read |-> r.read, passes |-> r.passes]
       /\ emitted' = Accumulate(emitted, r.internal)
       /\ delivered' = delivered \o Concat(r.pushed)
       /\ UNCHANGED <<is_running, controller, arrived>>
       /\ UNCHANGED <<rdVars, netVars, cmdVars>>

\* One activation of the operator by the worker's scheduler.
Activate == Body(is_running) /\ UNCHANGED stepVars

\* The same activation step by step, the controller's store falling before,
\* between or after. The scheduler takes the request; the closure runs up to its
\* load of the flag. The `if !started` block before the load touches only the
\* closure's own state: its effect is taken with the rest of the body.
LoadFlag ==
    /\ pc = "idle"
    /\ pc' = "loaded"
    /\ loaded' = is_running
    /\ activate_requested' = FALSE
    /\ UNCHANGED <<event_streams, started, antichain, is_running, controller,
                   internal, pushed, produced, act, emitted, delivered, arrived>>
    /\ UNCHANGED <<rdVars, raced, netVars, cmdVars>>

\* Mutant of Finish: the branch is chosen by the flag as it is at the return.
FinishRereads ==
    /\ pc = "loaded"
    /\ Body(is_running)
    /\ pc' = "idle"
    /\ raced' = (raced \/ (loaded /\ ~is_running))
    /\ UNCHANGED loaded

\* The rest of the closure, from the branch on the loaded value to `false`.
Finish ==
    /\ pc = "loaded"
    /\ Body(loaded)
    /\ pc' = "idle"
    /\ raced' = (raced \/ (loaded /\ ~is_running))
    /\ UNCHANGED loaded

\* ------------------------------------------------------------ make_readers
\* Mutant of Selects: the slot's number is taken for its position.
SelectsFromOne(k, worker_index, worker_peers) == k % worker_peers = worker_index

\* .filter(|(i, _)| *i % worker_peers == worker_index): slot k holds position k - 1.
Selects(k, worker_index, worker_peers) == (k - 1) % worker_peers = worker_index

\* Mutant of TakeSlot: a path is opened before it is taken; one that cannot be
\* opened stays in its slot.
TakeSlotOpensFirst(st, k, variant, bad) ==
    IF st.slots[k] = None
    THEN [st EXCEPT !.outcome = "panic", !.readers = <<>>]
    ELSE LET r == st.slots[k][1]
         IN IF variant = "Files" /\ r \in bad
            THEN [st EXCEPT !.outcome = "Err", !.readers = <<>>,
                            !.error = <<"open", r>>]
            ELSE [st EXCEPT !.slots[k] = None, !.readers = Append(@, r)]

\* Mutant of TakeSlot: the slot's content is cloned, the slot stays filled.
TakeSlotKeeps(st, k, variant, bad) ==
    IF st.slots[k] = None
    THEN [st EXCEPT !.outcome = "panic", !.readers = <<>>]
    ELSE IF variant = "Files" /\ st.slots[k][1] \in bad
         THEN [st EXCEPT !.outcome = "Err", !.readers = <<>>,
                         !.error = <<"open", st.slots[k][1]>>]
         ELSE [st EXCEPT !.readers = Append(@, st.slots[k][1])]

\* Mutant of TakeSlot: an empty slot is skipped (no expect).
TakeSlotSkipsEmpty(st, k, variant, bad) ==
    IF st.slots[k] = None
    THEN st
    ELSE LET r == st.slots[k][1]
             taken == [st EXCEPT !.slots[k] = None]
         IN IF variant = "Files" /\ r \in bad
            THEN [taken EXCEPT !.outcome = "Err", !.readers = <<>>,
                               !.error = <<"open", r>>]
            ELSE [taken EXCEPT !.readers = Append(@, r)]

\* Mutant of TakeSlot: the result of File::open is unwrapped.
TakeSlotUnwraps(st, k, variant, bad) ==
    IF st.slots[k] = None
    THEN [st EXCEPT !.outcome = "panic", !.readers = <<>>]
    ELSE LET r == st.slots[k][1]
             taken == [st EXCEPT !.slots[k] = None]
         IN IF variant = "Files" /\ r \in bad
            THEN [taken EXCEPT !.outcome = "panic", !.readers = <<>>]
            ELSE [taken EXCEPT !.readers = Append(@, r)]

\* One selected slot: s.take().expect(..), then for a path File::open(&p).
\* A panic unwinds through the iterator: the readers built so far are dropped.
TakeSlot(st, k, variant, bad) ==
    IF st.slots[k] = None
    THEN [st EXCEPT !.outcome = "panic", !.readers = <<>>]
    ELSE LET r == st.slots[k][1]
             taken == [st EXCEPT !.slots[k] = None]
         IN IF variant = "Files" /\ r \in bad
            THEN [taken EXCEPT !.outcome = "Err", !.readers = <<>>,
                               !.error = <<"open", r>>]
            ELSE [taken EXCEPT !.readers = Append(@, r)]

\* The iterator chain under collect(): the slots in order, stopping at the
\* first panic or, for files, at the first open error.
RECURSIVE Collect(_, _, _, _, _, _)
Collect(st, k, worker_index, worker_peers, variant, bad) ==
    IF k > Len(st.slots) \/ st.outcome # "Ok" THEN st
    ELSE Collect(IF Selects(k, worker_index, worker_peers)
                 THEN TakeSlot(st, k, variant, bad) ELSE st,
                 k + 1, worker_index, worker_peers, variant, bad)

\* Mutant of make_readers: the lock is taken whether poisoned or not.
make_readersRecovers(cells, is_poisoned, worker_index, worker_peers, variant, bad) ==
    LET st == Collect([slots |-> cells, outcome |-> "Ok", readers |-> <<>>,
                       error |-> None],
                      1, worker_index, worker_peers, variant, bad)
    IN [slots |-> st.slots, outcome |-> st.outcome, readers |-> st.readers,
        error |-> st.error, poisoned |-> (is_poisoned \/ st.outcome = "panic")]

\* make_readers(source, worker_index, worker_peers): lock().unwrap() panics on a
\* poisoned mutex; a panic while the guard is held poisons it.
make_readers(cells, is_poisoned, worker_index, worker_peers, variant, bad) ==
    IF is_poisoned
    THEN [slots |-> cells, outcome |-> "panic", readers |-> <<>>, error |-> None,
          poisoned |-> TRUE]
    ELSE LET st == Collect([slots |-> cells, outcome |-> "Ok", readers |-> <<>>,
                            error |-> None],
                           1, worker_index, worker_peers, variant, bad)
         IN [slots |-> st.slots, outcome |-> st.outcome, readers |-> st.readers,
             error |-> st.error, poisoned |-> (st.outcome = "panic")]

IdleReaders ==
    /\ source = "Tcp"
    /\ slots = <<>>
    /\ unopenable = {}
    /\ poisoned = FALSE
    /\ before = <<>>
    /\ calls = <<>>

IdleSteps ==
    /\ pc = "idle"
    /\ loaded = TRUE
    /\ raced = FALSE

IdleWorker == replayer = None

IdleProfile ==
    /\ map = <<>>
    /\ batch = <<>>
    /\ found = <<>>
    /\ session = <<>>
    /\ crashed = FALSE
    /\ now = None

IdleWindow ==
    /\ output_interval_ms = 1
    /\ event_time = None
    /\ assigned = None

IdleCmd == IdleWorker /\ IdleProfile /\ IdleWindow

IdleNet ==
    /\ bound = None
    /\ backlog = <<>>
    /\ opened = None

IdleOperator ==
    /\ event_streams = <<>>
    /\ started = FALSE
    /\ antichain = NewAntichain
    /\ is_running = TRUE
    /\ controller = "stdin"
    /\ activate_requested = TRUE
    /\ internal = <<>>
    /\ pushed = <<>>
    /\ produced = <<>>
    /\ act = NoAct
    /\ emitted = ZeroCounts
    /\ delivered = <<>>
    /\ arrived = <<>>

\* The slot sequence as open_sockets / await_sockets build it: every slot filled,
\* slot k holding the k-th connection (or the k-th path of a file list).
InitReaders ==
    /\ \E n \in 0 .. MaxSlots : slots = [k \in 1 .. n |-> Some(k)]
    /\ source \in {"Tcp", "Files"}
    /\ unopenable \in SUBSET (1 .. Len(slots))
    /\ source = "Tcp" => unopenable = {}
    /\ poisoned = FALSE
    /\ before = slots
    /\ calls = <<>>

\* A worker thread calls make_readers on its clone of the shared source.
MakeReaders ==
    /\ Len(calls) < MaxCalls
    /\ \E worker_peers \in 1 .. MaxPeers : \E worker_index \in 0 .. worker_peers - 1 :
         \E r \in {make_readers(slots, poisoned, worker_index, worker_peers,
                                source, unopenable)} :
            /\ slots' = r.slots
            /\ poisoned' = r.poisoned
            /\ before' = slots
            /\ calls' = Append(calls, [index |-> worker_index, peers |-> worker_peers,
                                       outcome |-> r.outcome, readers |-> r.readers,
                                       error |-> r.error])
    /\ UNCHANGED <<source, unopenable>>
    /\ UNCHANGED <<opVars, stepVars, netVars, cmdVars>>

\* ------------------------------------------------------------ open_sockets
\* ConnectError: IoError(io::Error), converted by `?`, and Other(String).
IoError(e) == [variant |-> "IoError", of |-> e]
Other(text) == [variant |-> "Other", text |-> text]

Ok(v) == [outcome |-> "Ok", value |-> v]
Err(e) == [outcome |-> "Err", error |-> e]

\* What (ip_addr, port).to_socket_addrs() may return by the trait's contract: an
\* error, no address, or addresses (the std implementation for (IpAddr, u16)
\* returns exactly one).
Resolutions == {Err("resolve"), Ok(<<>>), Ok(<<"addr">>)}

\* What TcpListener::bind(socket_addr) may return: a listener or an io::Error.
BindErrors == {"AddrInUse", "PermissionDenied"}
Binds == {Ok("listener")} \cup {Err(e) : e \in BindErrors}

\* io::Error::to_string(): the error's text.
to_string(e) ==
    CASE e = "AddrInUse" -> "Address already in use"
      [] e = "PermissionDenied" -> "Permission denied"
      [] OTHER -> "other os error"

\* Mutant of bind: the first address is unwrapped.
bindUnwraps(resolved, attempt) ==
    IF resolved.outcome = "Err" THEN Err(IoError(resolved.error))
    ELSE IF resolved.value = <<>> THEN [outcome |-> "panic"]
    ELSE IF attempt.outcome = "Err" THEN Err(Other(to_string(attempt.error)))
    ELSE Ok(attempt.value)

\* bind(ip_addr, port), given what the resolution and the bind of its first
\* address return.
bind(resolved, attempt) ==
    IF resolved.outcome = "Err" THEN Err(IoError(resolved.error))
    ELSE IF resolved.value = <<>> THEN Err(Other("Invalid listening address"))
    ELSE IF attempt.outcome = "Err" THEN Err(Other(to_string(attempt.error)))
    ELSE Ok(attempt.value)

\* A connection attempt: the peer it comes from and how it fares, accept()
\* failing, set_nonblocking(true) failing, or neither.
Fates == {"Ok", "AcceptErr", "NonblockErr"}
Attempts == [peer : 1 .. MaxConns, fate : Fates]

\* The k-th accepted connection, once switched to non-blocking mode.
Conn(a, k) == [peer |-> a.peer, arrival |-> k, nonblocking |-> TRUE]

\* Mutant of Accepting: a new connection is put in front of the others.
RECURSIVE AcceptingInFront(_, _, _)
AcceptingInFront(st, attempts, count) ==
    IF st.outcome # "Ok" \/ st.accepts = count THEN st
    ELSE LET k == st.accepts + 1
             a == attempts[k]
         IN AcceptingInFront(
                IF a.fate = "AcceptErr"
                THEN [st EXCEPT !.outcome = "Err", !.error = IoError(<<"accept", k>>),
                                !.slots = <<>>, !.accepts = k]
                ELSE IF a.fate = "NonblockErr"
                THEN [st EXCEPT !.outcome = "Err",
                                !.error = IoError(<<"set_nonblocking", k>>),
                                !.slots = <<>>, !.accepts = k]
                ELSE [st EXCEPT !.slots = <<Some(Conn(a, k))>> \o @, !.accepts = k],
                attempts, count)

\* (0..source_peers).map(..).collect::<Result<Vec<_>, _>>(): one
\* listener.incoming().next() per slot, until the first Err.
RECURSIVE Accepting(_, _, _)
Accepting(st, attempts, count) ==
    IF st.outcome # "Ok" \/ st.accepts = count THEN st
    ELSE LET k == st.accepts + 1
             a == attempts[k]
         IN Accepting(
                IF a.fate = "AcceptErr"
                THEN [st EXCEPT !.outcome = "Err", !.error = IoError(<<"accept", k>>),
                                !.slots = <<>>, !.accepts = k]
                ELSE IF a.fate = "NonblockErr"
                THEN [st EXCEPT !.outcome = "Err",
                                !.error = IoError(<<"set_nonblocking", k>>),
                                !.slots = <<>>, !.accepts = k]
                ELSE [st EXCEPT !.slots = Append(@, Some(Conn(a, k))), !.accepts = k],
                attempts, count)

\* await_sockets(listener, source_peers), given the attempts the listener yields.
await_sockets(attempts, source_peers) ==
    Accepting([outcome |-> "Ok", slots |-> <<>>, error |-> None, accepts |-> 0,
               count |-> source_peers],
              attempts, source_peers)

\* The call blocks in incoming().next() until it has its connections or an error.
CanReturn(attempts, count) ==
    \/ Len(attempts) >= count
    \/ \E k \in 1 .. Len(attempts) : attempts[k].fate # "Ok"

Bind ==
    /\ bound = None
    /\ \E resolved \in Resolutions, attempt \in Binds :
         bound' = [resolved |-> resolved, attempt |-> attempt,
                   result |-> bind(resolved, attempt)]
    /\ UNCHANGED <<backlog, opened>>
    /\ UNCHANGED <<opVars, rdVars, stepVars, cmdVars>>

\* A worker of the computation under examination connects to the listener.
Connect ==
    /\ bound # None
    /\ bound.result.outcome = "Ok"
    /\ Len(backlog) < MaxConns
    /\ \E a \in Attempts : backlog' = Append(backlog, a)
    /\ UNCHANGED <<bound, opened>>
    /\ UNCHANGED <<opVars, rdVars, stepVars, cmdVars>>

AwaitSockets ==
    /\ bound # None
    /\ bound.result.outcome = "Ok"
    /\ opened = None
    /\ \E source_peers \in 0 .. MaxConns :
         /\ CanReturn(backlog, source_peers)
         /\ opened' = await_sockets(backlog, source_peers)
    /\ UNCHANGED <<bound, backlog>>
    /\ UNCHANGED <<opVars, rdVars, stepVars, cmdVars>>

\* ------------------------------------------------------- the worker closure
\* timely::execute runs the closure once in each local worker: the workers have
\* the same worker.peers() and each its own worker.index().
NewWorker(worker_index, worker_peers) ==
    \A c \in DOMAIN calls :
       calls[c].peers = worker_peers /\ calls[c].index # worker_index

\* make_readers(ReplaySource::Tcp(sockets), worker.index(), worker.peers()) on
\* the worker's clone of the shared sockets, r being what it returns.
CallReaders(worker_index, worker_peers, r) ==
    /\ slots' = r.slots
    /\ poisoned' = r.poisoned
    /\ before' = slots
    /\ calls' = Append(calls, [index |-> worker_index, peers |-> worker_peers,
                               outcome |-> r.outcome, readers |-> r.readers,
                               error |-> r.error])
    /\ UNCHANGED <<source, unopenable>>

\* Another worker runs its closure; of it only the call of make_readers counts here.
PeerStarts ==
    /\ \E worker_peers \in 1 .. MaxPeers : \E worker_index \in 0 .. worker_peers - 1 :
         /\ NewWorker(worker_index, worker_peers)
         /\ \E r \in {make_readers(slots, poisoned, worker_index, worker_peers,
                                   source, unopenable)} :
               CallReaders(worker_index, worker_peers, r)
    /\ UNCHANGED <<opVars, stepVars, netVars, cmdVars>>

\* The worker that is followed runs its closure: make_readers(..).expect(..),
\* then replay_with_shutdown_into builds the operator over the readers it got.
\* A result other than Ok panics in expect and no operator is built.
WorkerStarts ==
    /\ replayer = None
    /\ \E worker_peers \in 1 .. MaxPeers : \E worker_index \in 0 .. worker_peers - 1 :
         /\ NewWorker(worker_index, worker_peers)
         /\ \E r \in {make_readers(slots, poisoned, worker_index, worker_peers,
                                   source, unopenable)} :
               /\ CallReaders(worker_index, worker_peers, r)
               /\ replayer' = Some([index |-> worker_index, peers |-> worker_peers,
                                    outcome |-> r.outcome, readers |-> r.readers])
               /\ IF r.outcome = "Ok"
                  THEN /\ event_streams' = [s \in 1 .. Len(r.readers) |-> <<>>]
                       /\ arrived' = [s \in 1 .. Len(r.readers) |-> 0]
                  ELSE UNCHANGED <<event_streams, arrived>>
    /\ UNCHANGED <<started, antichain, is_running, controller, activate_requested,
                   internal, pushed, produced, act, emitted, delivered>>
    /\ UNCHANGED <<stepVars, netVars>>
    /\ UNCHANGED <<map, batch, found, session, crashed, now, output_interval_ms,
                   event_time, assigned>>

\* The followed worker has its operator.
Built == replayer # None /\ replayer[1].outcome = "Ok"

WorkerArrive == Built /\ ArriveUpTo(MaxFairEvents)

WorkerActivate == Built /\ Activate

\* ------------------------------------------- profile: the Schedules operator
\* Duration: whole seconds and the nanoseconds of the second under way.
NanosPerSec == 1000000000

Duration(secs, nanos) == [secs |-> secs, nanos |-> nanos]

\* The timestamps the logged events carry.
Instants ==
    {Duration(secs, nanos) : secs \in {0, 1}, nanos \in {0, NanosPerSec - 1}}

\* Ord for Duration: by seconds, then by nanoseconds.
Le(a, b) == a.secs < b.secs \/ (a.secs = b.secs /\ a.nanos <= b.nanos)

\* Duration::from_secs
from_secs(secs) == Duration(secs, 0)

\* impl Sub for Duration: checked_sub(..).expect(..), None when rhs is greater.
checked_sub(a, b) ==
    IF ~Le(b, a) THEN None
    ELSE IF a.nanos >= b.nanos
         THEN Some(Duration(a.secs - b.secs, a.nanos - b.nanos))
         ELSE Some(Duration(a.secs - b.secs - 1, a.nanos + NanosPerSec - b.nanos))

\* The source workers and the operator ids of the replayed computation.
Workers == {0, 1}
Ids == {1}
Keys == Workers \X Ids

\* (ts, worker, event) with event.id and event.start_stop.
ScheduleEvents ==
    [ts : Instants, worker : Workers, id : Ids, start_stop : {"Start", "Stop"}]

\* A worker logs its events with the time elapsed on its own clock: in a
\* batch, as in the log, the timestamps of one worker never decrease.
RECURSIVE InLogOrder(_, _)
InLogOrder(clock, events) ==
    \/ events = <<>>
    \/ /\ Le(clock[Head(events).worker], Head(events).ts)
       /\ InLogOrder([clock EXCEPT ![Head(events).worker] = Head(events).ts],
                     Tail(events))

RECURSIVE Advance(_, _)
Advance(clock, events) ==
    IF events = <<>> THEN clock
    ELSE Advance([clock EXCEPT ![Head(events).worker] = Head(events).ts], Tail(events))

Batches(clock) ==
    {b \in UNION {[1 .. n -> ScheduleEvents] : n \in 1 .. MaxBatch} :
        InLogOrder(clock, b)}

\* A failed assert!, or expect on None: the closure unwinds.
Panic(st) == [st EXCEPT !.crashed = TRUE]

\* Mutant of OnSchedule: a Stop leaves the pending Start in the map.
OnScheduleKeeps(st, e) ==
    LET key == <<e.worker, e.id>>
    IN IF st.crashed THEN st
       ELSE IF e.start_stop = "Start"
       THEN IF st.map[key] # None THEN Panic(st)
            ELSE [st EXCEPT !.map[key] = Some(e.ts)]
       ELSE IF st.map[key] = None THEN Panic(st)
            ELSE LET end == st.map[key][1]
                     ts_clip == from_secs(e.ts.secs + 1)
                     elapsed == checked_sub(e.ts, end)
                 IN IF elapsed = None THEN Panic(st)
                    ELSE LET elapsed_ns == elapsed[1].secs * NanosPerSec + elapsed[1].nanos
                         IN [st EXCEPT !.session =
                                          Append(@, <<key[2], ts_clip, elapsed_ns>>)]

\* The body of `for (ts, worker, event) in vec.drain(..)`, for one event.
OnSchedule(st, e) ==
    LET key == <<e.worker, e.id>>
    IN IF st.crashed THEN st
       ELSE IF e.start_stop = "Start"
       THEN IF st.map[key] # None THEN Panic(st)
            ELSE [st EXCEPT !.map[key] = Some(e.ts)]
       ELSE IF st.map[key] = None THEN Panic(st)
            ELSE LET end == st.map[key][1]
                     ts_clip == from_secs(e.ts.secs + 1)
                     elapsed == checked_sub(e.ts, end)
                 IN IF elapsed = None THEN Panic(st)
                    ELSE LET elapsed_ns == elapsed[1].secs * NanosPerSec + elapsed[1].nanos
                         IN [st EXCEPT !.map[key] = None,
                                       !.session =
                                          Append(@, <<key[2], ts_clip, elapsed_ns>>)]

\* data.swap(&mut vec); a session; the loop over the batch.
RECURSIVE Schedules(_, _)
Schedules(st, events) ==
    IF events = <<>> THEN st
    ELSE Schedules(OnSchedule(st, Head(events)), Tail(events))

\* let mut map = HashMap::new(): no key has a pending Start.
StartProfile ==
    /\ map = [key \in Keys |-> None]
    /\ batch = <<>>
    /\ found = map
    /\ session = <<>>
    /\ crashed = FALSE
    /\ now = [w \in Workers |-> Duration(0, 0)]

\* The closure handles one batch of its input; a panic ends the worker.
HandleBatch ==
    /\ ~crashed
    /\ \E b \in Batches(now) :
         \E r \in {Schedules([map |-> map, session |-> <<>>, crashed |-> FALSE], b)} :
            /\ batch' = b
            /\ found' = map
            /\ map' = r.map
            /\ session' = r.session
            /\ crashed' = r.crashed
            /\ now' = Advance(now, b)
    /\ UNCHANGED <<replayer, output_interval_ms, event_time, assigned>>
    /\ UNCHANGED <<opVars, rdVars, stepVars, netVars>>

\* ------------------------------------------------ arrangements: the delay
\* u64 and u128 values are written in limbs of 16 bits, the least significant
\* first: four limbs hold a u64, the fifth what exceeds it.
Limb == 65536

Wide(n) == <<n, 0, 0, 0, 0>>

\* u64::MAX, and the first value above it.
U64Max == <<Limb - 1, Limb - 1, Limb - 1, Limb - 1, 0>>
U64Over == <<0, 0, 0, 0, 1>>

\* u64::try_from(u128) is Ok.
FitsU64(x) == x[5] = 0

\* The value modulo 2^64: what wrapping arithmetic keeps.
Wrap(x) == [x EXCEPT ![5] = 0]

\* x + c from limb i upward.
RECURSIVE AddAt(_, _, _)
AddAt(x, i, c) ==
    IF c = 0 \/ i > Len(x) THEN x
    ELSE AddAt([x EXCEPT ![i] = (x[i] + c) % Limb], i + 1, (x[i] + c) \div Limb)

Plus(x, n) == AddAt(x, 1, n)

\* x * n, limb by limb with carry.
RECURSIVE TimesAt(_, _, _, _)
TimesAt(x, n, i, c) ==
    IF i > Len(x) THEN x
    ELSE TimesAt([x EXCEPT ![i] = (x[i] * n + c) % Limb], n, i + 1,
                 (x[i] * n + c) \div Limb)

Times64(x, n) == TimesAt(x, n, 1, 0)

\* x / n and x % n by long division from the most significant limb.
RECURSIVE DivAt(_, _, _, _)
DivAt(x, n, i, r) ==
    IF i = 0 THEN [quot |-> x, rem |-> r]
    ELSE DivAt([x EXCEPT ![i] = (r * Limb + x[i]) \div n], n, i - 1,
               (r * Limb + x[i]) % n)

Quot(x, n) == DivAt(x, n, Len(x), 0).quot
Rem(x, n) == DivAt(x, n, Len(x), 0).rem

\* x < y.
RECURSIVE LessAt(_, _, _)
LessAt(x, y, i) ==
    IF i = 0 THEN FALSE
    ELSE IF x[i] # y[i] THEN x[i] < y[i]
    ELSE LessAt(x, y, i - 1)

Less(x, y) == LessAt(x, y, Len(x))

\* A Duration here: its whole milliseconds and what is left below a millisecond.
Millis(ms, sub) == [millis |-> ms, sub |-> sub]

\* Duration::as_millis(): the whole milliseconds, as u128.
as_millis(t) == t.millis

\* Duration::from_millis(u64)
from_millis(ms) == Millis(ms, 0)

\* The event times: Durations whatever the log holds.
EventTimes ==
    {Millis(ms, sub) :
        ms \in {Wide(n) : n \in 0 .. MaxMillis}
               \cup {[U64Max EXCEPT ![1] = @ - n] : n \in 0 .. MaxMillis}
               \cup {U64Over},
        sub \in {0, 1}}

\* Mutant of delay: the window index is rounded up, not stepped.
delayCeiling(t, interval, overflow_checks) ==
    IF ~FitsU64(as_millis(t)) \/ interval = 0 THEN None
    ELSE LET timestamp == as_millis(t)
             window_idx == Quot(Plus(timestamp, interval - 1), interval)
             end == Times64(Wrap(window_idx), interval)
         IN IF overflow_checks /\ (~FitsU64(window_idx) \/ ~FitsU64(end)) THEN None
            ELSE Some(from_millis(Wrap(end)))

\* The closure of delay: None when it panics (expect on a time that does not
\* fit u64, division by zero, an overflow under overflow checks); without
\* overflow checks the sum and the product wrap.
delay(t, interval, overflow_checks) ==
    IF ~FitsU64(as_millis(t)) \/ interval = 0 THEN None
    ELSE LET timestamp == as_millis(t)
             window_idx == Plus(Quot(timestamp, interval), 1)
             end == Times64(Wrap(window_idx), interval)
         IN IF overflow_checks /\ (~FitsU64(window_idx) \/ ~FitsU64(end)) THEN None
            ELSE Some(from_millis(Wrap(end)))

\* The command line gives the interval; no event was delayed yet.
StartWindow ==
    /\ output_interval_ms \in 0 .. MaxInterval
    /\ event_time = None
    /\ assigned = None

\* The delay is applied to one event. Whether overflow panics or wraps is the
\* build's choice (debug-assertions / overflow-checks).
Delay ==
    /\ ~crashed
    /\ \E t \in EventTimes : \E overflow_checks \in BOOLEAN :
         /\ event_time' = Some(t)
         /\ assigned' = delay(t, output_interval_ms, overflow_checks)
         /\ crashed' = (assigned' = None)
    /\ UNCHANGED <<replayer, map, batch, found, session, now, output_interval_ms>>
    /\ UNCHANGED <<opVars, rdVars, stepVars, netVars>>

\* ----------------------------------------------------------- specifications
Init == InitOperator /\ IdleReaders /\ IdleSteps /\ IdleNet /\ IdleCmd

Next == Arrive \/ Store \/ Activate

Spec == Init /\ [][Next]_vars

NextReaders == MakeReaders

InitPartition == IdleOperator /\ InitReaders /\ IdleSteps /\ IdleNet /\ IdleCmd

SpecReaders == InitPartition /\ [][NextReaders]_vars

InitConnect == IdleOperator /\ IdleReaders /\ IdleSteps /\ IdleNet /\ IdleCmd

NextConnect == Bind \/ Connect \/ AwaitSockets

SpecConnect == InitConnect /\ [][NextConnect]_vars

\* The operator under a scheduler that serves requested activations: timely's
\* worker loop runs an operator whose activator was called, and an activation
\* that has started returns.
InitFair ==
    /\ InitOperator
    /\ Len(event_streams) <= MaxFairSources
    /\ IdleReaders
    /\ IdleSteps
    /\ IdleNet
    /\ IdleCmd

ArriveFair == ArriveUpTo(MaxFairEvents)

Scheduled == activate_requested /\ LoadFlag

NextFair == ArriveFair \/ Store \/ LoadFlag \/ Finish

\* An activation that has started returns: WF_vars(Finish), written on the
\* states, Finish being enabled exactly when pc = "loaded" and leaving pc = "idle".
Returns == []<>(pc = "idle")

Fairness == WF_vars(Scheduled) /\ Returns

FairSpec == InitFair /\ [][NextFair]_vars /\ Fairness

\* A command's workers: the sockets of open_sockets shared among them, and one
\* worker's operator followed from its construction.
InitWorker == InitPartition /\ source = "Tcp"

NextWorker == PeerStarts \/ WorkerStarts \/ WorkerArrive \/ Store \/ WorkerActivate

SpecWorker == InitWorker /\ [][NextWorker]_vars

\* The profile command's Schedules operator over the replayed log.
InitProfile ==
    /\ IdleOperator
    /\ IdleReaders
    /\ IdleSteps
    /\ IdleNet
    /\ IdleWorker
    /\ StartProfile
    /\ IdleWindow

NextProfile == HandleBatch

SpecProfile == InitProfile /\ [][NextProfile]_vars

\* The arrangements command's delay over the event times of the log.
InitWindow ==
    /\ IdleOperator
    /\ IdleReaders
    /\ IdleSteps
    /\ IdleNet
    /\ IdleWorker
    /\ IdleProfile
    /\ StartWindow

NextWindow == Delay

SpecWindow == InitWindow /\ [][NextWindow]_vars

\* ------------------------------------------------- vocabulary of the claims
\* The number of sources the operator was built over.
N == Len(event_streams)

\* The sum of the deltas a sequence of updates holds for timestamp t.
RECURSIVE SumAt(_, _)
SumAt(ups, t) ==
    IF ups = <<>> THEN 0
    ELSE (IF ups[1][1] = t THEN ups[1][2] ELSE 0) + SumAt(Tail(ups), t)

\* The updates with a non-zero delta: an update of zero changes no count.
Effective(ups) == SelectSeq(ups, LAMBDA u : u[2] # 0)

\* The initial capability delta, in the activation that is the operator's first.
SeedPart == IF act.first THEN <<<<DefaultTime, N - 1>>>> ELSE <<>>

\* The tracker's counts when the last activation read the flag.
PreCounts ==
    IF act.first THEN [act.start EXCEPT ![DefaultTime] = @ + (N - 1)] ELSE act.start

\* The updates of the Progress events of a stream, and of all streams in order.
RECURSIVE ProgressOf(_)
ProgressOf(events) ==
    IF events = <<>> THEN <<>>
    ELSE (IF Head(events).type = "Progress" THEN Head(events).vec ELSE <<>>)
         \o ProgressOf(Tail(events))

RECURSIVE Forwarded(_)
Forwarded(read) ==
    IF read = <<>> THEN <<>> ELSE ProgressOf(Head(read)) \o Forwarded(Tail(read))

\* c updates <<t, -1>>.
Minus(t, c) == [i \in 1 .. c |-> <<t, -1>>]

\* One unit retracted per outstanding unit, earliest timestamp first.
RECURSIVE RetractionFrom(_, _)
RetractionFrom(counts, t) ==
    IF t > MaxTime THEN <<>>
    ELSE (IF counts[t] > 0 THEN Minus(t, counts[t]) ELSE <<>>)
         \o RetractionFrom(counts, t + 1)

RetractionOf(counts) == RetractionFrom(counts, 0)

\* The updates the last activation emitted after the initial capability delta.
AfterSeed == IF act.first THEN Tail(internal) ELSE internal

\* ------------------------------------------------------------------ claims
\* C1: Frontier zero-sum. Once the operator has observed shutdown and run its
\* retraction, the sum of all progress deltas it has emitted (the initial
\* capability delta, every forwarded Progress delta and every retraction) is
\* zero for every timestamp (stated here for an operator over at least one source).
C1_ZeroSumOverLifetime ==
    (N >= 1 /\ act.kind = "retract") => \A t \in Times : emitted[t] = 0

\* C2: Shutdown retraction result. In an activation that observes the flag as
\* stopped, every timestamp t that holds a positive count c_t receives
\* retractions that total exactly -c_t, and the tracker is empty (no timestamp of
\* positive count; all counts zero when none was negative) on return.
C2_ShutdownRetraction ==
    act.kind = "retract" =>
        /\ \A t \in Times : PreCounts[t] > 0 => SumAt(AfterSeed, t) = - PreCounts[t]
        /\ \A t \in Times : antichain[t] <= 0
        /\ (\A t \in Times : PreCounts[t] >= 0) => antichain = ZeroCounts

\* Scenario C: {t1: +1, t2: +1} at shutdown yields {t1: -1, t2: -1}.
C2_Witness ==
    /\ act.kind = "retract"
    /\ \E t1, t2 \in Times :
         /\ t1 < t2
         /\ PreCounts[t1] = 1 /\ PreCounts[t2] = 1
         /\ AfterSeed = <<<<t1, -1>>, <<t2, -1>>>>
    /\ antichain = ZeroCounts

\* C3 as stated: an activation that reads the flag as stopped emits no Messages,
\* its only output is the retraction of the counts the tracker held when it
\* started, and it emits nothing when it starts with an empty tracker (stated
\* here for an operator over at least one source).
C3_OnlyRetractionsAfterStop ==
    (N >= 1 /\ act.kind = "retract") =>
        /\ pushed = <<>>
        /\ Effective(internal) = RetractionOf(act.start)
        /\ is_empty(act.start) => Effective(internal) = <<>>

\* C3 amended: once an activation has read the flag as stopped, no activation
\* forwards again; an activation that reads stopped emits no Messages, and its
\* output is the retraction deltas, preceded by the initial capability delta
\* when it is the operator's first activation; an activation other than the
\* first that starts with an empty tracker emits nothing.
C3_SilenceAfterStop ==
    /\ act.kind = "forward" => act.prev # "retract"
    /\ act.kind = "retract" =>
        /\ pushed = <<>>
        /\ internal = SeedPart \o RetractionOf(PreCounts)
        /\ (~act.first /\ is_empty(act.start)) => internal = <<>>

C3_Witness ==
    /\ act.kind = "retract"
    /\ ~act.first
    /\ internal # <<>>
    /\ \E s \in 1 .. N : \E i \in 1 .. Len(event_streams[s]) :
         event_streams[s][i].type = "Messages"

\* C4: Initial capability seeding. The first activation, whatever the flag reads,
\* starts from an empty tracker, emits the delta (N - 1) at the default timestamp
\* before anything else and applies it to the tracker; no later activation emits
\* or applies it again: what a later activation emits is exactly the forwarded
\* progress or the retraction, and the tracker moves by exactly what was emitted.
C4_SeedOnce ==
    act.kind # "none" =>
        /\ act.first <=> act.prev = "none"
        /\ act.first =>
            /\ act.start = ZeroCounts
            /\ internal # <<>>
            /\ Head(internal) = <<DefaultTime, N - 1>>
        /\ AfterSeed = IF act.kind = "forward" THEN Forwarded(act.read)
                       ELSE RetractionOf(PreCounts)
        /\ \A t \in Times : antichain[t] = PreCounts[t] + SumAt(AfterSeed, t)

\* Scenario A under a stopped flag: the first activation of an operator over
\* three sources emits +2 at the default timestamp, then retracts it.
C4_Witness ==
    /\ act.first
    /\ act.kind = "retract"
    /\ N = 3
    /\ internal = <<<<DefaultTime, 2>>, <<DefaultTime, -1>>, <<DefaultTime, -1>>>>

\* The last call of make_readers.
Last == calls[Len(calls)]

\* Slot k (position k - 1) is one of those a call (w, W) is to claim.
Mine(k, w, W) == \E q \in 0 .. Len(slots) : k - 1 = q * W + w

MineOf(c) == {k \in 1 .. Len(slots) : Mine(k, c.index, c.peers)}

\* The paths among those of the last call that were there and cannot be opened.
BadOf(c) ==
    {k \in MineOf(c) : source = "Files" /\ before[k] # None /\ before[k][1] \in unopenable}

\* What the claim promises of a call on a sequence of filled slots.
ClaimsItsShare ==
    /\ Last.outcome = "Ok"
    /\ Last.readers = SortedSeq(MineOf(Last))
    /\ slots = [k \in 1 .. Len(slots) |-> IF k \in MineOf(Last) THEN None ELSE before[k]]

\* C5 as stated: a call with index w and count W on N filled slots claims exactly
\* the slots at the positions i with i mod W = w, returns one reader per claimed
\* slot in increasing position order and leaves every other slot untouched.
C5_SelectionRule ==
    (calls # <<>> /\ \A k \in 1 .. Len(before) : before[k] # None) => ClaimsItsShare

\* C5 amended: the same, when every path the call selects can be opened (always
\* so for a Tcp source).
C5_SelectionRuleWhenOpenable ==
    (calls # <<>> /\ (\A k \in 1 .. Len(before) : before[k] # None) /\ BadOf(Last) = {})
        => ClaimsItsShare

\* A call that claims two of three slots of a file list and leaves the third.
C5_Witness ==
    /\ Len(calls) = 1
    /\ source = "Files"
    /\ Len(slots) = 3
    /\ Last.index = 0 /\ Last.peers = 2
    /\ Last.readers = <<1, 3>>
    /\ slots = <<None, Some(2), None>>

\* Every call so far was made with the same worker count, by a different index.
ProperUse ==
    /\ \A c, d \in DOMAIN calls : calls[c].peers = calls[d].peers
    /\ \A c, d \in DOMAIN calls : c # d => calls[c].index # calls[d].index

\* What the claim promises when each worker calls once, in whatever order the
\* threads reach the lock: no call fails, no connection is handed out twice, a
\* slot is empty exactly when its owner has called, and once all have called
\* every slot is empty and every connection is with exactly one worker.
CoversOnce ==
    /\ \A c \in DOMAIN calls : calls[c].outcome = "Ok"
    /\ \A c, d \in DOMAIN calls : \A i \in DOMAIN calls[c].readers :
         \A j \in DOMAIN calls[d].readers :
            (calls[c].readers[i] = calls[d].readers[j]) => (c = d /\ i = j)
    /\ \A k \in 1 .. Len(slots) :
         slots[k] = None <=> \E c \in DOMAIN calls : k \in MineOf(calls[c])
    /\ (calls # <<>> /\ Len(calls) = calls[1].peers) =>
         /\ \A k \in 1 .. Len(slots) : slots[k] = None
         /\ \A k \in 1 .. Len(slots) :
              \E c \in DOMAIN calls : \E i \in DOMAIN calls[c].readers :
                 calls[c].readers[i] = k

\* C6 as stated: when each worker index 0..W-1 calls once on the same slot
\* sequence, in any order, no call fails, every slot is claimed by exactly one
\* worker, and afterwards every slot is empty.
C6_Coverage == ProperUse => CoversOnce

\* C6 amended: the same, when every path can be opened (always so for a Tcp source).
C6_CoverageWhenOpenable == (ProperUse /\ unopenable = {}) => CoversOnce

\* Three slots, two workers, the worker of index 1 first: all slots claimed.
C6_Witness ==
    /\ Len(slots) = 3
    /\ Len(calls) = 2
    /\ calls[1].peers = 2 /\ calls[1].index = 1 /\ calls[1].readers = <<2>>
    /\ calls[2].peers = 2 /\ calls[2].index = 0 /\ calls[2].readers = <<1, 3>>
    /\ slots = <<None, None, None>>

\* The selected slots the last call found empty.
EmptyOf(c) == {k \in MineOf(c) : before[k] = None}

\* Slots only ever go from filled to empty, and a connection or path is in one
\* place only: in its slot, or with the one call that claimed it.
TakenOnce ==
    /\ \A k \in 1 .. Len(slots) : before[k] = None => slots[k] = None
    /\ \A k \in 1 .. Len(slots) : slots[k] \in {None, Some(k)}
    /\ \A c, d \in DOMAIN calls : \A i \in DOMAIN calls[c].readers :
         \A j \in DOMAIN calls[d].readers :
            (calls[c].readers[i] = calls[d].readers[j]) => (c = d /\ i = j)
    /\ \A c \in DOMAIN calls : \A i \in DOMAIN calls[c].readers :
         slots[calls[c].readers[i]] = None

\* C7 as stated: a slot is emptied at most once and never refilled; a call that
\* selects an already-empty slot panics, returning neither readers nor an error
\* value; what the first claimant holds is unaffected.
C7_TakeOnce ==
    /\ TakenOnce
    /\ (calls # <<>> /\ EmptyOf(Last) # {}) =>
         (Last.outcome = "panic" /\ Last.readers = <<>>)

\* An earlier call panicked: the last call found the mutex poisoned.
FoundPoisoned == \E c \in 1 .. Len(calls) - 1 : calls[c].outcome = "panic"

\* C7 amended: the same, except that a call on a file list returns the open error
\* when opening a selected path fails before the call comes to its first empty
\* selected slot.
C7_TakeOnceUnlessOpenFails ==
    /\ TakenOnce
    /\ (calls # <<>> /\ EmptyOf(Last) # {}) =>
         IF ~FoundPoisoned /\ \E b \in BadOf(Last) : \A e \in EmptyOf(Last) : b < e
         THEN Last.outcome = "Err" /\ Last.readers = <<>>
         ELSE Last.outcome = "panic" /\ Last.readers = <<>>

\* A second call over a range that overlaps the first claimant's: it panics
\* after taking a slot of its own, and the first claimant keeps its reader.
C7_Witness ==
    /\ Len(calls) = 2
    /\ Len(slots) = 2
    /\ calls[1].index = 1 /\ calls[1].peers = 2 /\ calls[1].readers = <<2>>
    /\ calls[2].index = 0 /\ calls[2].peers = 1 /\ calls[2].outcome = "panic"
    /\ slots = <<None, None>>
    /\ poisoned

\* The order of two payloads of one source: by event, then by place in the event.
Earlier(p, q) == p[2] < q[2] \/ (p[2] = q[2] /\ p[3] < q[3])

\* C8: Per-source order preservation. Of any two payloads of the same source that
\* were pushed downstream, over any number of activations, the one the source
\* produced first was pushed first.
C8_PerSourceOrder ==
    \A i, j \in DOMAIN delivered :
        (i < j /\ delivered[i][1] = delivered[j][1]) => Earlier(delivered[i], delivered[j])

\* The payloads of two Messages events of one source were pushed, by an
\* operator over several sources.
C8_Witness ==
    /\ N >= 2
    /\ \E i, j \in DOMAIN delivered :
         i < j /\ delivered[i][1] = delivered[j][1] /\ delivered[i][2] # delivered[j][2]

\* C9: Verbatim progress forwarding. An activation that reads the flag as running
\* emits, after the initial capability delta if it is the first, exactly the
\* updates of the Progress events it read, in order, and the tracker moves by
\* exactly those updates: nothing dropped, altered or invented, and nothing for a
\* Messages event.
C9_VerbatimForwarding ==
    act.kind = "forward" =>
        /\ internal = SeedPart \o Forwarded(act.read)
        /\ \A t \in Times :
             antichain[t] = PreCounts[t] + SumAt(Forwarded(act.read), t)

\* An activation that read a two-update Progress event and a Messages event.
C9_Witness ==
    /\ act.kind = "forward"
    /\ ~act.first
    /\ \E s \in 1 .. N : \E i \in 1 .. Len(act.read[s]) :
         act.read[s][i].type = "Progress" /\ Len(act.read[s][i].vec) = 2
    /\ pushed # <<>>

\* C10: Post-retraction no-op. An activation that follows the activation in which
\* the retraction was done emits nothing (no Messages, no progress update) and
\* leaves the started flag, the tracker and every source iterator as they were.
C10_NoOpAfterRetraction ==
    (act.kind = "retract" /\ act.prev = "retract") =>
        /\ internal = <<>>
        /\ pushed = <<>>
        /\ ~act.first /\ started
        /\ antichain = act.start
        /\ \A s \in DOMAIN act.read : act.read[s] = <<>>

\* A further activation after a retraction that emitted, with events still unread.
C10_Witness ==
    /\ act.kind = "retract" /\ act.prev = "retract"
    /\ \E t \in Times : emitted[t] # 0 \/ antichain[t] # 0
    /\ \E s \in 1 .. N : event_streams[s] # <<>>

\* An activation that began before the controller's store returns after it.
InFlight == pc = "loaded" /\ loaded /\ ~is_running

\* C11: Cooperative cancellation. An activation that had loaded the flag as
\* running when the controller stored false finishes in forward mode; an
\* activation that starts after the store loads stopped and runs in retract mode;
\* and, the scheduler serving requested activations, once the flag is stopped the
\* tracker eventually is empty and stays empty for ever.
C11_CooperativeCancellation ==
    /\ [][(InFlight /\ pc' = "idle") => act'.kind = "forward"]_vars
    /\ [][(~is_running /\ pc = "idle" /\ pc' = "loaded") => ~loaded']_vars
    /\ [][(pc = "loaded" /\ ~loaded /\ pc' = "idle") => act'.kind = "retract"]_vars
    /\ (~is_running) ~> [](is_empty(antichain))

\* The store fell inside a forward activation, which left outstanding counts;
\* the activation after it retracted them.
C11_Witness ==
    /\ raced
    /\ pc = "idle"
    /\ act.kind = "retract" /\ act.prev = "forward"
    /\ ~is_empty(act.start)
    /\ is_empty(antichain)

\* The payloads of the Messages events of a stream, and of all streams in order.
RECURSIVE DataIn(_)
DataIn(events) ==
    IF events = <<>> THEN <<>>
    ELSE (IF Head(events).type = "Messages" THEN Head(events).data ELSE <<>>)
         \o DataIn(Tail(events))

RECURSIVE DataOf(_)
DataOf(read) ==
    IF read = <<>> THEN <<>> ELSE DataIn(Head(read)) \o DataOf(Tail(read))

\* The time of the Messages event a payload came with, among the events read.
TimeOf(read, d) ==
    {e.time : e \in {read[d[1]][i] : i \in 1 .. Len(read[d[1]])} \cap
                    UNION {MessagesEvents(d[1], d[2])}}

\* C12: Activation-boundary release. When a forward activation returns, the
\* batches it pushed hold exactly the payloads of the Messages events it read,
\* each at its event's time, the progress updates it emitted are exactly those
\* of the Progress events it read, and the produced counts are exactly the
\* record counts of the batches it pushed; a retract activation pushes and
\* counts nothing. Over an activation, downstream's payloads grow by exactly
\* what that activation read: nothing is held back for a later activation.
C12_ReleasedBeforeReturn ==
    /\ [](act.kind = "forward" =>
            /\ Concat(pushed) = DataOf(act.read)
            /\ \A i \in DOMAIN pushed : \A j \in DOMAIN pushed[i][2] :
                 TimeOf(act.read, pushed[i][2][j]) = {pushed[i][1]}
            /\ internal = SeedPart \o Forwarded(act.read)
            /\ produced = [i \in DOMAIN pushed |-> <<pushed[i][1], Len(pushed[i][2])>>])
    /\ [](act.kind = "retract" => (pushed = <<>> /\ produced = <<>>))
    /\ [][delivered' = delivered \o
              (IF act' # act /\ act'.kind = "forward" THEN DataOf(event_streams)
               ELSE <<>>)]_vars

\* An activation read Messages events at two times: two batches, both counted.
C12_Witness ==
    /\ act.kind = "forward"
    /\ Len(pushed) = 2
    /\ pushed[1][1] # pushed[2][1]
    /\ produced = <<<<pushed[1][1], MaxData>>, <<pushed[2][1], MaxData>>>>
    /\ ~act.first
    /\ delivered = Concat(pushed)

\* C13: Shutdown flag lifecycle. The flag starts as running; it changes only in
\* a step of the controller, from running to stopped, and never back; no step
\* of the operator changes it; and an activation acts on the one value it
\* loaded, whatever the flag becomes meanwhile: a forward activation retracts
\* nothing, a retract activation reads no source and pushes nothing.
C13_FlagLifecycle ==
    /\ (is_running = TRUE /\ controller = "stdin")
    /\ [][is_running' # is_running =>
            /\ is_running /\ ~is_running'
            /\ controller = "stdin" /\ controller' = "join"
            /\ pc' = pc /\ act' = act /\ antichain' = antichain]_vars
    /\ [][~is_running => ~is_running']_vars
    /\ [][pc' # pc => is_running' = is_running]_vars
    /\ [][(pc = "loaded" /\ pc' = "idle") =>
            act'.kind = IF loaded THEN "forward" ELSE "retract"]_vars
    /\ [](act.kind = "forward" =>
            (act.passes = 0 /\ internal = SeedPart \o Forwarded(act.read)))
    /\ [](act.kind = "retract" =>
            /\ \A s \in DOMAIN act.read : act.read[s] = <<>>
            /\ pushed = <<>>
            /\ internal = SeedPart \o RetractionOf(PreCounts))

\* The flag went to stopped in the course of an activation, which read and
\* pushed Messages and left outstanding counts as a forward activation does.
C13_Witness ==
    /\ raced
    /\ pc = "idle"
    /\ ~is_running /\ controller = "join"
    /\ act.kind = "forward"
    /\ pushed # <<>>
    /\ ~is_empty(antichain)

\* The attempts among the first n of the backlog that fail.
Failing(n) == {k \in 1 .. n : k <= Len(backlog) /\ backlog[k].fate # "Ok"}

\* The least element of a non-empty set of numbers.
Least(S) == CHOOSE k \in S : \A j \in S : k <= j

\* C14: Connection acquisition. When no attempt among the first count fails,
\* await_sockets returns exactly count slots, all filled, slot k holding the k-th
\* connection accepted, in non-blocking mode; when one fails, in accept or in
\* the switch to non-blocking, the call returns the error of the first that
\* fails, and no slot list.
C14_ConnectionAcquisition ==
    opened # None =>
        IF Failing(opened.count) = {}
        THEN /\ opened.outcome = "Ok"
             /\ Len(opened.slots) = opened.count
             /\ \A k \in 1 .. opened.count :
                  /\ opened.slots[k] # None
                  /\ opened.slots[k][1].peer = backlog[k].peer
                  /\ opened.slots[k][1].arrival = k
                  /\ opened.slots[k][1].nonblocking
        ELSE LET j == Least(Failing(opened.count))
             IN /\ opened.outcome = "Err"
                /\ opened.slots = <<>>
                /\ opened.accepts = j
                /\ opened.error =
                     IoError(<<IF backlog[j].fate = "AcceptErr" THEN "accept"
                               ELSE "set_nonblocking", j>>)

\* Three connections awaited, the peers arriving in another order than their
\* own numbers, and a fourth attempt left in the backlog.
C14_Witness ==
    /\ opened # None
    /\ opened.outcome = "Ok"
    /\ opened.count = 3
    /\ opened.slots[1][1].peer = 3 /\ opened.slots[2][1].peer = 1
    /\ opened.slots[3][1].peer = 2

\* C16: bind returns a listener, or an error value that tells why: the io error
\* of a failed resolution, "Invalid listening address" when the resolution
\* yields no address, the text of the bind's io error when the bind fails. It
\* never panics, and returns a listener only when the resolution gave an
\* address and the bind of that address succeeded.
C16_BindResult ==
    bound # None =>
        /\ bound.result.outcome \in {"Ok", "Err"}
        /\ bound.result.outcome = "Ok" <=>
             /\ bound.resolved.outcome = "Ok"
             /\ bound.resolved.value # <<>>
             /\ bound.attempt.outcome = "Ok"
        /\ bound.result.outcome = "Ok" => bound.result.value = bound.attempt.value
        /\ bound.result.outcome = "Err" =>
             bound.result.error =
                IF bound.resolved.outcome = "Err" THEN IoError(bound.resolved.error)
                ELSE IF bound.resolved.value = <<>>
                     THEN Other("Invalid listening address")
                     ELSE Other(to_string(bound.attempt.error))

\* The address resolved and its bind failed: the error carries the text.
C16_Witness ==
    /\ bound # None
    /\ bound.resolved = Ok(<<"addr">>)
    /\ bound.attempt = Err("AddrInUse")
    /\ bound.result = Err(Other("Address already in use"))

\* The selected paths the last call came to open and could not: those it cannot
\* open with no empty selected slot before them.
OpenFailed(c) == {b \in BadOf(c) : \A e \in EmptyOf(c) : b < e}

\* C15: File-backed partition error. When a call on a file list comes to open a
\* selected path and the open fails, the call returns that open failure, the
\* first in slot order, as an error value; it does not panic and returns no
\* readers.
C15_OpenFailureIsReturned ==
    (calls # <<>> /\ source = "Files" /\ ~FoundPoisoned /\ OpenFailed(Last) # {}) =>
        /\ Last.outcome = "Err"
        /\ Last.readers = <<>>
        /\ Last.error = <<"open", Least(OpenFailed(Last))>>
        /\ ~poisoned

\* A worker opened its first path and failed on its second.
C15_Witness ==
    /\ Len(calls) = 1
    /\ source = "Files"
    /\ Len(slots) = 3
    /\ unopenable = {3}
    /\ Last.index = 0 /\ Last.peers = 2
    /\ Last.outcome = "Err" /\ Last.error = <<"open", 3>>

\* The timestamps of positive count, and the units they hold together.
Positive(counts) == {t \in Times : counts[t] > 0}

RECURSIVE UnitsFrom(_, _)
UnitsFrom(counts, t) ==
    IF t > MaxTime THEN 0
    ELSE (IF counts[t] > 0 THEN counts[t] ELSE 0) + UnitsFrom(counts, t + 1)

Units(counts) == UnitsFrom(counts, 0)

\* The tracker after one pass of the retraction loop.
AfterPass(counts) == update_iter(counts, Elements(counts))

\* No timestamp read in a pass is in the frontier after it, pass after pass.
RECURSIVE EachPassClears(_)
EachPassClears(counts) ==
    \/ is_empty(counts)
    \/ /\ frontier(counts) \cap frontier(AfterPass(counts)) = {}
       /\ EachPassClears(AfterPass(counts))

\* A pass lowers by one the count of each timestamp it reads and no other, so
\* a timestamp it reads stays in the frontier exactly when it held more than one.
RECURSIVE EachPassLowers(_)
EachPassLowers(counts) ==
    \/ is_empty(counts)
    \/ LET read == frontier(counts)
           next == AfterPass(counts)
       IN /\ \A t \in Times : next[t] = counts[t] - (IF t \in read THEN 1 ELSE 0)
          /\ \A t \in read : t \in frontier(next) <=> counts[t] > 1
          /\ EachPassLowers(next)

\* C17 as stated: the retraction loop makes at most one pass per distinct
\* timestamp the tracker holds when shutdown is observed, and after each pass
\* none of the timestamps read in it remain in the frontier.
C17_OnePassPerTimestamp ==
    act.kind = "retract" =>
        /\ act.passes <= Cardinality(Positive(PreCounts))
        /\ EachPassClears(PreCounts)

\* C17 amended: the loop makes one pass per outstanding unit, as many passes as
\* the positive counts of the tracker sum to when shutdown is observed; each
\* pass lowers by one the count of each timestamp it reads, which leaves the
\* frontier when its count reaches zero.
C17_OnePassPerUnit ==
    act.kind = "retract" =>
        /\ act.passes = Units(PreCounts)
        /\ EachPassLowers(PreCounts)

\* Two units at one timestamp and one at a later one: three passes.
C17_Witness ==
    /\ act.kind = "retract"
    /\ Cardinality(Positive(PreCounts)) = 2
    /\ act.passes = 3
    /\ is_empty(antichain)

\* C18: Retraction completes in one activation. The first activation that reads
\* the flag as stopped returns with an empty tracker, whatever the tracker held;
\* an activation after it finds the tracker empty, makes no pass and emits
\* nothing: the retraction is never spread over two activations.
C18_RetractionInOneActivation ==
    act.kind = "retract" =>
        /\ is_empty(antichain)
        /\ act.prev = "retract" =>
             (is_empty(act.start) /\ act.passes = 0 /\ internal = <<>>)
        /\ act.prev # "retract" => act.passes = Units(PreCounts)

\* The first stopped activation found several units at two timestamps and
\* retracted them all.
C18_Witness ==
    /\ act.kind = "retract" /\ act.prev = "forward"
    /\ act.passes >= 2
    /\ \A t \in Times : act.start[t] > 0
    /\ is_empty(antichain)

\* C19: Busy polling while running. An activation that loaded the flag as
\* running has asked for its re-activation when it returns, whether or not it
\* read an event; so, while the flag stays running, the operator is activated
\* again and again, for ever.
C19_BusyPolling ==
    /\ [][(pc = "loaded" /\ loaded /\ pc' = "idle") => activate_requested']_vars
    /\ ([](is_running = TRUE)) => []<>(pc = "loaded")

\* A forward activation that found no event on any source has asked to be
\* activated again, as the one before it.
C19_Witness ==
    /\ pc = "idle"
    /\ act.kind = "forward" /\ act.prev = "forward"
    /\ N >= 1
    /\ \A s \in 1 .. N : act.read[s] = <<>>
    /\ activate_requested

\* Source s has an event available that no activation has read yet.
Pending(s) == s <= N /\ event_streams[s] # <<>>

\* Every event of source s that became available was read.
Drained(s) == s <= N /\ event_streams[s] = <<>>

\* C20: Forwarding liveness. Events leave a source only in a forward
\* activation, which reads all that the source has available and hands all it
\* reads downstream; and, while the flag stays running and requested
\* activations are served, every event a source makes available is eventually
\* read.
C20_ForwardingLiveness ==
    /\ [][\A s \in DOMAIN event_streams :
            Len(event_streams'[s]) < Len(event_streams[s]) =>
                /\ act'.kind = "forward"
                /\ act'.read[s] = event_streams[s]
                /\ event_streams'[s] = <<>>
                /\ Concat(pushed') = DataOf(act'.read)
                /\ internal' = SeedPart' \o Forwarded(act'.read)]_vars
    /\ ([](is_running = TRUE)) =>
          \A s \in 1 .. MaxFairSources : [](Pending(s) => <>Drained(s))

\* The second source's event became available before the operator's first
\* activation had returned, and a later activation read and pushed it.
C20_Witness ==
    /\ pc = "idle"
    /\ is_running
    /\ N = 2
    /\ act.kind = "forward" /\ act.prev = "forward"
    /\ act.read[2] # <<>>
    /\ Drained(2)
    /\ pushed # <<>>

\* An activation that read the flag as stopped has returned.
ShutdownSeen == pc = "idle" /\ act.kind = "retract"

\* C21 as stated: after an activation has observed the flag as stopped, the
\* operator is activated again, and again after that.
C21_ReactivatedAfterShutdown == [](ShutdownSeen => <>(pc = "loaded"))

\* C21 amended: an activation that reads the flag as stopped returns without
\* having asked for re-activation, so no request is pending once shutdown was
\* observed; an activation the scheduler makes all the same changes nothing.
C21_NoRequestAfterShutdown ==
    /\ [][(pc = "loaded" /\ ~loaded /\ pc' = "idle") => ~activate_requested']_vars
    /\ [](ShutdownSeen => ~activate_requested)
    /\ [][(act.kind = "retract" /\ pc = "loaded" /\ pc' = "idle") =>
            /\ antichain' = antichain
            /\ internal' = <<>> /\ pushed' = <<>>
            /\ event_streams' = event_streams
            /\ emitted' = emitted /\ delivered' = delivered]_vars

\* The operator was activated once more after the retraction, unrequested, and
\* left no request behind either.
C21_Witness ==
    /\ ShutdownSeen
    /\ act.prev = "retract"
    /\ ~activate_requested
    /\ \E t \in Times : emitted[t] # 0

\* Stream a is a leading part of stream b.
IsPrefix(a, b) == Len(a) <= Len(b) /\ SubSeq(b, 1, Len(a)) = a

\* C22: Sources untouched after shutdown. An activation that reads the flag as
\* stopped reads no source; from the activation that observes shutdown onward
\* no event leaves a source and nothing is pushed downstream: the events that
\* were available but unread stay unread, whatever arrives after them.
C22_SourcesUntouchedAfterShutdown ==
    /\ [](act.kind = "retract" =>
            (pushed = <<>> /\ \A s \in DOMAIN act.read : act.read[s] = <<>>))
    /\ [][(act.kind = "retract" \/ (act' # act /\ act'.kind = "retract")) =>
            /\ \A s \in DOMAIN event_streams :
                 IsPrefix(event_streams[s], event_streams'[s])
            /\ delivered' = delivered
            /\ pushed' = <<>>]_vars

\* Shutdown was observed with a Messages event and a Progress event unread;
\* two activations later both are still there and nothing was delivered.
C22_Witness ==
    /\ act.kind = "retract" /\ act.prev = "retract"
    /\ delivered = <<>>
    /\ \E s \in 1 .. N : \E i, j \in 1 .. Len(event_streams[s]) :
         event_streams[s][i].type = "Messages" /\ event_streams[s][j].type = "Progress"
    /\ \A t \in Times : antichain[t] = IF t = DefaultTime /\ N = 0 THEN -1 ELSE 0

\* C23: Tracker mirrors emissions. At the return of every activation, for
\* every timestamp, the count the frontier tracker holds equals the sum of all
\* the progress deltas the operator has emitted for that timestamp so far: the
\* initial capability delta, the forwarded Progress deltas and the retractions.
C23_TrackerMirrorsEmissions ==
    \A t \in Times : antichain[t] = emitted[t]

\* After a forwarding activation and a retraction of at least one pass, a
\* count that the sources drove negative is still mirrored.
C23_Witness ==
    /\ act.kind = "retract" /\ act.prev = "forward"
    /\ act.passes > 0
    /\ \E t \in Times : emitted[t] < 0 /\ antichain[t] = emitted[t]

\* The updates are, one after the other, -1 at the least timestamp that holds a
\* positive count at that point, and they stop when no count is positive.
RECURSIVE MinimalFirst(_, _)
MinimalFirst(counts, ups) ==
    IF ups = <<>> THEN Positive(counts) = {}
    ELSE /\ Positive(counts) # {}
         /\ Head(ups) = <<Least(Positive(counts)), -1>>
         /\ MinimalFirst(update(counts, Least(Positive(counts)), -1), Tail(ups))

\* C24: No over-retraction. Each pass of the retraction loop emits a delta of
\* exactly -1 for the timestamp that is minimal among those of positive count
\* (timestamps are totally ordered, so a pass emits one update), and for no
\* other; hence no count is driven below zero: a positive count ends at zero,
\* and a timestamp whose count is zero or negative when shutdown is observed
\* receives no retraction and keeps its count.
C24_NoOverRetraction ==
    act.kind = "retract" =>
        /\ MinimalFirst(PreCounts, AfterSeed)
        /\ Len(AfterSeed) = act.passes
        /\ \A t \in Times :
             /\ antichain[t] = IF PreCounts[t] > 0 THEN 0 ELSE PreCounts[t]
             /\ PreCounts[t] <= 0 =>
                  \A i \in 1 .. Len(AfterSeed) : AfterSeed[i][1] # t

\* Two units at the earlier timestamp and one at the later: three passes, the
\* later timestamp retracted only once the earlier is exhausted.
C24_Witness ==
    /\ act.kind = "retract"
    /\ PreCounts[0] = 2 /\ PreCounts[1] = 1
    /\ act.passes = 3
    /\ AfterSeed = <<<<0, -1>>, <<0, -1>>, <<1, -1>>>>

\* The operator's first activation read the flag as stopped.
StoppedAtStart == act.kind = "retract" /\ act.first

Sourceless ==
    /\ replayer # None
    /\ replayer[1].peers > Len(slots)
    /\ replayer[1].index >= Len(slots)

\* C26: Worker without sources. When the local worker count exceeds the slot
\* count, a worker whose index selects no slot gets an empty reader list
\* without error; its operator is built over no source, its first activation
\* emits the delta -1 at the minimum timestamp and nothing else, the frontier
\* tracker is then empty, and an activation that observes shutdown later
\* emits no retraction.
C26_WorkerWithoutSources ==
    Sourceless =>
        /\ replayer[1].outcome = "Ok"
        /\ replayer[1].readers = <<>>
        /\ Built /\ N = 0
        /\ act.first => internal = <<<<DefaultTime, -1>>>>
        /\ act.kind # "none" =>
             /\ antichain = [ZeroCounts EXCEPT ![DefaultTime] = -1]
             /\ is_empty(antichain)
             /\ pushed = <<>>
        /\ (act.kind # "none" /\ ~act.first) => internal = <<>>

\* Two sockets, three workers; the third worker started first, its operator
\* ran once while the flag was set and once after the store.
C26_Witness ==
    /\ Sourceless
    /\ Len(slots) = 2 /\ replayer[1].peers = 3 /\ replayer[1].index = 2
    /\ Len(calls) = 3
    /\ act.kind = "retract" /\ act.prev = "forward"
    /\ emitted[DefaultTime] = -1
    /\ internal = <<>>

\* C27: Partial claim on file-open failure. When make_readers over file paths
\* fails because the path in selected slot j cannot be opened, every selected
\* slot at a position up to and including j has been emptied (its path is
\* gone), every selected slot after j and every slot not selected is as it
\* was (still filled if it was filled); a later call with the same index and
\* count therefore hits an empty slot and fails fatally.
C27_PartialClaimOnOpenFailure ==
    /\ (calls # <<>> /\ Last.outcome = "Err") =>
         LET j == Last.error[2]
         IN /\ source = "Files"
            /\ j \in MineOf(Last) /\ j \in unopenable
            /\ before[j] = Some(j)
            /\ \A k \in 1 .. Len(slots) :
                 slots[k] = IF k \in MineOf(Last) /\ k <= j THEN None ELSE before[k]
    /\ \A c, d \in DOMAIN calls :
         (c < d /\ calls[c].outcome = "Err"
            /\ calls[d].index = calls[c].index /\ calls[d].peers = calls[c].peers)
         => (calls[d].outcome = "panic" /\ calls[d].readers = <<>>)

\* One worker over three paths, the second cannot be opened: the first two
\* slots are empty, the third still holds its path, and the repeated call
\* panics on the first slot.
C27_Witness ==
    /\ source = "Files" /\ unopenable = {2}
    /\ Len(calls) = 2
    /\ calls[1].index = 0 /\ calls[1].peers = 1
    /\ calls[1].outcome = "Err" /\ calls[1].error = <<"open", 2>>
    /\ calls[2].index = 0 /\ calls[2].peers = 1
    /\ calls[2].outcome = "panic"
    /\ slots = <<None, None, Some(3)>>

\* C28: Failure propagation through the shared slot sequence. After one call
\* of make_readers has failed fatally on an already-empty slot (it panics
\* while it holds the lock on the slot sequence), every later call on the
\* same slot sequence, by any worker, also fails fatally, returns no reader
\* and takes no slot, even when the slots it selects are all still filled.
C28_FailurePropagation ==
    /\ poisoned <=> \E c \in DOMAIN calls : calls[c].outcome = "panic"
    /\ \A c, d \in DOMAIN calls :
         (c < d /\ calls[c].outcome = "panic") =>
            (calls[d].outcome = "panic" /\ calls[d].readers = <<>>)
    /\ (Len(calls) >= 2 /\ calls[Len(calls) - 1].outcome = "panic") => slots = before

\* Worker 0 of 2 calls twice and panics on its empty first slot; worker 1 then
\* calls for the first time, its one slot still filled, and panics too.
C28_Witness ==
    /\ Len(calls) = 3
    /\ calls[1].outcome = "Ok" /\ calls[1].index = 0 /\ calls[1].peers = 2
    /\ calls[2].outcome = "panic" /\ calls[2].index = 0 /\ calls[2].peers = 2
    /\ calls[3].outcome = "panic" /\ calls[3].index = 1 /\ calls[3].peers = 2
    /\ slots = <<None, Some(2), None>>
    /\ \A k \in MineOf(Last) : slots[k] # None

\* The key of an event of the last batch, and its Start still pending when the
\* i-th event of the batch is reached: that of the key's latest event before
\* it in the batch, else the one the batch found in the map.
KeyOf(e) == <<e.worker, e.id>>

PendingAt(i, key) ==
    LET prior == {j \in 1 .. i - 1 : KeyOf(batch[j]) = key}
    IN IF prior = {} THEN found[key]
       ELSE LET j == CHOOSE m \in prior : \A n \in prior : n <= m
            IN IF batch[j].start_stop = "Start" THEN Some(batch[j].ts) ELSE None

\* The events that fail an assertion: a Start over a pending Start, a Stop
\* with none.
Misplaced ==
    {i \in 1 .. Len(batch) :
        (batch[i].start_stop = "Start") <=> (PendingAt(i, KeyOf(batch[i])) # None)}

\* The events handled before the first that fails, all of them when none does.
Handled == IF Misplaced = {} THEN Len(batch) ELSE Least(Misplaced) - 1

\* A timestamp in nanoseconds.
Nanoseconds(d) == d.secs * NanosPerSec + d.nanos

\* The positions of the Stop events among those handled, in order.
StopsHandled ==
    SelectSeq([i \in 1 .. Handled |-> i], LAMBDA i : batch[i].start_stop = "Stop")

EventMillis == event_time[1].millis

\* x is the multiple of the interval that lies in (t, t + interval].
WindowEnd(x, t, interval) ==
    /\ Rem(x, interval) = 0
    /\ Less(t, x)
    /\ ~Less(Plus(t, interval), x)
    /\ Rem(t, interval) = 0 => x = Plus(t, interval)

\* The window end of the last event's time fits in 64 bits.
InRange ==
    /\ FitsU64(EventMillis)
    /\ FitsU64(Plus(EventMillis, output_interval_ms - Rem(EventMillis, output_interval_ms)))

\* C30 as stated: the arrangements command moves every event time t (in whole
\* milliseconds) to (floor(t / interval) + 1) * interval for interval > 0: the
\* assigned time is a multiple of the interval, strictly greater than t and at
\* most t + interval; an event on a window boundary lands in the following window.
C30_WindowOfEveryTime ==
    (event_time # None /\ output_interval_ms > 0) =>
        /\ assigned # None
        /\ assigned[1].sub = 0
        /\ WindowEnd(assigned[1].millis, EventMillis, output_interval_ms)

\* C30 amended: for interval > 0 and every event time t (in whole
\* milliseconds) whose window end (floor(t / interval) + 1) * interval is
\* below 2^64, the assigned time is that window end: a whole number of
\* milliseconds, a multiple of the interval, strictly greater than t and at
\* most t + interval, t + interval when t is on a window boundary. For any
\* other t the closure panics (the time does not fit u64, or overflow checks
\* are on) or the arithmetic wraps and the assigned time is before t.
C30_WindowWithinRange ==
    (event_time # None /\ output_interval_ms > 0) =>
        IF InRange
        THEN /\ ~crashed
             /\ assigned # None
             /\ assigned[1].sub = 0
             /\ WindowEnd(assigned[1].millis, EventMillis, output_interval_ms)
             /\ Less(event_time[1].millis, assigned[1].millis)
        ELSE \/ crashed /\ assigned = None
             \/ /\ ~crashed
                /\ assigned # None
                /\ Less(assigned[1].millis, EventMillis)

\* An event at 8 ms and a fraction, interval 4 ms: it is on the boundary of
\* its millisecond window and moves to 12 ms.
C30_Witness ==
    /\ output_interval_ms = 4
    /\ event_time = Some(Millis(Wide(8), 1))
    /\ assigned = Some(Millis(Wide(12), 0))
    /\ ~crashed

====
